---- MODULE Spec2Model ----
(***************************************************************************)
(* A model of glslang-sys: the safe wrapper `compile` of src/lib.rs, the   *)
(* process-wide initialize/finalize lifecycle used by its tests, and the   *)
(* build script src/build.rs (prebuilt verification, source acquisition,   *)
(* native build orchestration).                                            *)
(*                                                                         *)
(* Three specifications share the module's variables:                      *)
(*   Spec       one call of `compile`                    (src/lib.rs)      *)
(*   SpecGuard  threads running the crate's tests        (src/lib.rs)      *)
(*   SpecBuild  the build script                         (src/build.rs)    *)
(* Each leaves the other parts' variables at their idle values.            *)
(***************************************************************************)
EXTENDS Integers, Sequences, FiniteSets, TLC

VARIABLES
  \* ---- compile (src/lib.rs:75-132)
  pc,        \* position inside compile
  input,     \* the arguments of the call
  shader,    \* the native shader object
  program,   \* the native program object
  calls,     \* the native entry points called so far, in order
  failed_step, \* the entry point that returned a falsy status, if any
  result,    \* what the call produced
  results,   \* how many results the call produced
  \* ---- process lifecycle, one entry per thread (src/lib.rs:139-186)
  kind,      \* which test the thread runs
  ip,        \* index of the thread's current step in TestSteps
  tpc,       \* position inside the current step
  lock,      \* holder of the process-wide lock, 0 when free
  NumberOfClients,   \* the library's initialization counter
  seen,      \* the counter value a call in progress has read
  initialize_calls,  \* completed glslang_initialize_process calls
  finalize_calls,    \* completed glslang_finalize_process calls
  \* ---- the build script (src/build.rs)
  cfg,       \* compile-time configuration: the feature and the host
  bpc,       \* position of the build script
  target,    \* CARGO_CFG_TARGET_OS / CARGO_CFG_TARGET_ARCH once read
  ndk_home,  \* ANDROID_NDK_HOME: "unread", "set" or "unset"
  repo,      \* the manifest's glslang entry once found (its commit)
  stamp,     \* prebuilt/version.txt as verification found it
  verify_result,  \* what get_prebuilt_glslang_install_dir produced
  fetch_steps,    \* fetch_glslang: the processes run so far, with their status
  fetch_result,   \* what fetch_glslang produced
  cwd,            \* the process's current working directory
  saved_cwd,      \* original_current_dir of the operation in progress
  bitfield,       \* GetLogicalDrives() as build_glslang read it
  drive_letter,   \* the drive letter build_glslang picked
  mapped,         \* the drive letters currently mapped with subst
  launched,       \* build_glslang: the processes launched so far
  build_result,   \* what build_glslang produced
  written,        \* what main wrote to stderr on a failed build
  emitted,        \* the cargo directives printed so far
  install_dir_path, \* main's install_dir_path once known
  bindings        \* whether the bindings were generated and written

compileVars == <<pc, input, shader, program, calls, failed_step, result, results>>

guardVars ==
  <<kind, ip, tpc, lock, NumberOfClients, seen, initialize_calls, finalize_calls>>

buildVars ==
  <<cfg, bpc, target, ndk_home, repo, stamp, verify_result, fetch_steps,
    fetch_result, cwd, saved_cwd, bitfield, drive_letter, mapped, launched,
    build_result, written, emitted, install_dir_path, bindings>>

vars == <<compileVars, guardVars, buildVars>>

-----------------------------------------------------------------------------
(* Bounds *)

\* Longest source text / source file name drawn as an input of compile.
MaxTextLen == 1

\* Number of test threads running concurrently.
NumThreads == 2

\* Longest revision string (manifest commit, stamp file content).
MaxRevLen == 1

\* Number of low drive letters (A, B, ..) whose in-use bits vary freely.
NumLowDrives == 3

-----------------------------------------------------------------------------
(* Byte strings and their decoding *)

\* All sequences over alphabet `a` of length 0..n.
RECURSIVE SeqsUpTo(_, _)
SeqsUpTo(a, n) ==
  IF n = 0 THEN {<<>>}
  ELSE LET shorter == SeqsUpTo(a, n - 1)
       IN  shorter \cup {Append(s, x) : s \in {t \in shorter : Len(t) = n - 1}, x \in a}

\* CStr::to_str: a byte string is accepted iff it is valid UTF-8.  Over the
\* bytes used here (NUL-free; ASCII letters and 0xFF) a byte is valid iff it
\* is below 0x80; 0xFF occurs in no valid UTF-8 sequence.
IsUtf8(bytes) == \A i \in 1..Len(bytes) : bytes[i] < 128

\* CStr::to_str().unwrap().to_owned(): the decoded text, one code point per
\* ASCII byte.  Only applied to bytes that passed IsUtf8.
to_str(bytes) == [i \in 1..Len(bytes) |-> bytes[i]]

\* CString::new fails iff the text holds an interior NUL.
HasNul(text) == \E i \in 1..Len(text) : text[i] = 0

-----------------------------------------------------------------------------
(* CompileOptionFlags (src/lib.rs:65-71) *)

GenerateDebugInfo == "GenerateDebugInfo"
AddOpSource == "AddOpSource"
CompileOptionFlags == SUBSET {GenerateDebugInfo, AddOpSource}

\* impl Default for glslang_spv_options_t (src/lib.rs:6-19)
DefaultSpvOptions ==
  [ generate_debug_info |-> FALSE,
    strip_debug_info |-> FALSE,
    disable_optimizer |-> TRUE,
    optimize_size |-> FALSE,
    disassemble |-> FALSE,
    validate |-> FALSE,
    emit_nonsemantic_shader_debug_info |-> FALSE,
    emit_nonsemantic_shader_debug_source |-> FALSE ]

\* option_flags.intersects(GenerateDebugInfo | AddOpSource)
Intersects(flags, mask) == flags \cap mask # {}

\* Mutant of SpvOptions: AddOpSource alone does not turn debug information on.
SpvOptions_debug_info_flag_only(flags) ==
  [ DefaultSpvOptions EXCEPT
      !.generate_debug_info = Intersects(flags, {GenerateDebugInfo}),
      !.validate = TRUE ]

\* The options record of src/lib.rs:108-112.
SpvOptions(flags) ==
  [ DefaultSpvOptions EXCEPT
      !.generate_debug_info = Intersects(flags, {GenerateDebugInfo, AddOpSource}),
      !.validate = TRUE ]

-----------------------------------------------------------------------------
(* Inputs of compile *)

\* Option<T>: None is the empty sequence, Some(x) the one-element sequence.
None == <<>>
Some(x) == <<x>>

\* input.code: the bytes of a NUL-terminated C string (the terminator is not
\* part of the text); 0x45 'E' and the invalid byte 0xFF.
CodeTexts == SeqsUpTo({69, 255}, MaxTextLen)

\* source_file_name: Option<&str>; a &str is valid UTF-8 but may hold NUL.
FileNames == {None} \cup {Some(n) : n \in SeqsUpTo({0, 118}, MaxTextLen)}

\* input.messages as the bindings type it (u32 where the enum is unsigned),
\* as the set of its one bits: SPV_RULES|VULKAN_RULES of the test (bits 3 and
\* 4), and a value with the top bit set.
MessageValues == {{3, 4}, {31}}

\* u32 -> c_int by try_into: succeeds iff the value is below 2^31.
FitsCInt(bits) == 31 \notin bits

\* Texts the library may leave in an object's info log or debug log.
LogTexts == {<<69>>, <<255>>}

\* The words the library may generate; the first is SPIR-V's magic number.
WordSeqs == {<<119734787>>, <<119734787, 1>>}

NoObject == [live |-> FALSE, created |-> FALSE]

NoInput ==
  [ code |-> <<>>, preamble |-> FALSE, messages |-> {},
    option_flags |-> {}, source_file_name |-> None ]

NoResult == [kind |-> "None"]

-----------------------------------------------------------------------------
(* GlslangErrorLog (src/lib.rs:42-63) *)

\* GlslangErrorLog::new: decodes both logs; either unwrap panics on bytes
\* that are not UTF-8.
GlslangErrorLog_new(context, info_log, debug_log) ==
  IF IsUtf8(info_log) /\ IsUtf8(debug_log)
  THEN [ kind |-> "Err", context |-> context,
         info_log |-> to_str(info_log), debug_log |-> to_str(debug_log) ]
  ELSE [ kind |-> "Panic" ]

from_shader(context, sh) == GlslangErrorLog_new(context, sh.info_log, sh.debug_log)

\* Mutant of from_program: reads the logs of the shader object instead.
from_program_reads_shader(context, pr) ==
  GlslangErrorLog_new(context, shader.info_log, shader.debug_log)

from_program(context, pr) == GlslangErrorLog_new(context, pr.info_log, pr.debug_log)

-----------------------------------------------------------------------------
(* compile (src/lib.rs:75-132) *)

\* What the early `return Err(..)` of src/lib.rs:83,86,95 leaves behind: the
\* function returns at once, no delete call is made.
ErrReturn(log) ==
  IF log.kind = "Panic"
  THEN /\ pc' = "panicked"
       /\ UNCHANGED <<result, results>>
  ELSE /\ pc' = "returned"
       /\ result' = log
       /\ results' = results + 1

\* A caller invokes compile.
Call ==
  /\ pc = "idle"
  /\ \E code \in CodeTexts, pre \in BOOLEAN, msg \in MessageValues,
        flags \in CompileOptionFlags, name \in FileNames :
       input' = [ code |-> code, preamble |-> pre, messages |-> msg,
                  option_flags |-> flags, source_file_name |-> name ]
  /\ pc' = "create"
  /\ UNCHANGED <<shader, program, calls, failed_step, result, results>>

\* src/lib.rs:76-80
ShaderCreate ==
  /\ pc = "create"
  /\ shader' = [ live |-> TRUE, created |-> TRUE, preamble |-> input.preamble,
                 info_log |-> <<>>, debug_log |-> <<>> ]
  /\ calls' = calls \o (IF input.preamble
                        THEN <<"glslang_shader_create", "glslang_shader_set_preamble">>
                        ELSE <<"glslang_shader_create">>)
  /\ pc' = "preprocess"
  /\ UNCHANGED <<input, program, failed_step, result, results>>

\* src/lib.rs:82-84
Preprocess ==
  /\ pc = "preprocess"
  /\ \E status \in {0, 1}, info \in LogTexts, debug \in LogTexts :
       LET sh == [shader EXCEPT !.info_log = info, !.debug_log = debug]
       IN  /\ shader' = sh
           /\ calls' = Append(calls, "glslang_shader_preprocess")
           /\ failed_step' = (IF status = 0 THEN Some("glslang_shader_preprocess") ELSE None)
           /\ IF status = 0
              THEN ErrReturn(from_shader("glslang_shader_preprocess", sh))
              ELSE pc' = "parse" /\ UNCHANGED <<result, results>>
  /\ UNCHANGED <<input, program>>

\* Mutant of Parse: the status of glslang_shader_parse is not looked at.
Parse_status_ignored ==
  /\ pc = "parse"
  /\ \E status \in {0, 1}, info \in LogTexts, debug \in LogTexts :
       /\ shader' = [shader EXCEPT !.info_log = info, !.debug_log = debug]
       /\ calls' = Append(calls, "glslang_shader_parse")
       /\ failed_step' = (IF status = 0 THEN Some("glslang_shader_parse") ELSE None)
       /\ pc' = "program"
  /\ UNCHANGED <<input, program, result, results>>

\* src/lib.rs:85-87
Parse ==
  /\ pc = "parse"
  /\ \E status \in {0, 1}, info \in LogTexts, debug \in LogTexts :
       LET sh == [shader EXCEPT !.info_log = info, !.debug_log = debug]
       IN  /\ shader' = sh
           /\ calls' = Append(calls, "glslang_shader_parse")
           /\ failed_step' = (IF status = 0 THEN Some("glslang_shader_parse") ELSE None)
           /\ IF status = 0
              THEN ErrReturn(from_shader("glslang_shader_parse", sh))
              ELSE pc' = "program" /\ UNCHANGED <<result, results>>
  /\ UNCHANGED <<input, program>>

\* src/lib.rs:89-90
ProgramCreate ==
  /\ pc = "program"
  /\ program' = [ live |-> TRUE, created |-> TRUE, shaders |-> 1,
                  info_log |-> <<>>, debug_log |-> <<>>,
                  source_text |-> None, source_file |-> None,
                  options |-> None, words |-> <<>> ]
  /\ calls' = calls \o <<"glslang_program_create", "glslang_program_add_shader">>
  /\ pc' = "link"
  /\ UNCHANGED <<input, shader, failed_step, result, results>>

\* src/lib.rs:94-96.  input.messages.try_into().unwrap() is evaluated before
\* the call and panics when the value does not fit c_int.
Link ==
  /\ pc = "link"
  /\ IF ~FitsCInt(input.messages)
     THEN /\ pc' = "panicked"
          /\ UNCHANGED <<program, calls, failed_step, result, results>>
     ELSE \E status \in {0, 1}, info \in LogTexts, debug \in LogTexts :
            LET pr == [program EXCEPT !.info_log = info, !.debug_log = debug]
            IN  /\ program' = pr
                /\ calls' = Append(calls, "glslang_program_link")
                /\ failed_step' = (IF status = 0 THEN Some("glslang_program_link") ELSE None)
                /\ IF status = 0
                   THEN ErrReturn(from_program("glslang_program_link", pr))
                   ELSE pc' = "source" /\ UNCHANGED <<result, results>>
  /\ UNCHANGED <<input, shader>>

\* Mutant of AddSource: a supplied source file name turns the embedding on
\* even with AddOpSource clear.
AddSource_name_implies_embedding ==
  /\ pc = "source"
  /\ IF AddOpSource \notin input.option_flags /\ input.source_file_name = None
     THEN /\ pc' = "generate"
          /\ UNCHANGED <<program, calls>>
     ELSE IF ~IsUtf8(input.code)
     THEN \* code_c_str.to_str().unwrap() is an argument of the call
          /\ pc' = "panicked"
          /\ UNCHANGED <<program, calls>>
     ELSE IF input.source_file_name = None
     THEN /\ program' = [program EXCEPT !.source_text = Some(to_str(input.code))]
          /\ calls' = Append(calls, "glslang_program_add_source_text")
          /\ pc' = "generate"
     ELSE IF HasNul(input.source_file_name[1])
     THEN \* CString::new(source_file_name).unwrap()
          /\ program' = [program EXCEPT !.source_text = Some(to_str(input.code))]
          /\ calls' = Append(calls, "glslang_program_add_source_text")
          /\ pc' = "panicked"
     ELSE /\ program' = [program EXCEPT !.source_text = Some(to_str(input.code)),
                                        !.source_file = input.source_file_name]
          /\ calls' = calls \o <<"glslang_program_add_source_text",
                                 "glslang_program_set_source_file">>
          /\ pc' = "generate"
  /\ UNCHANGED <<input, shader, failed_step, result, results>>

\* src/lib.rs:98-106
AddSource ==
  /\ pc = "source"
  /\ IF AddOpSource \notin input.option_flags
     THEN /\ pc' = "generate"
          /\ UNCHANGED <<program, calls>>
     ELSE IF ~IsUtf8(input.code)
     THEN \* code_c_str.to_str().unwrap() is an argument of the call
          /\ pc' = "panicked"
          /\ UNCHANGED <<program, calls>>
     ELSE IF input.source_file_name = None
     THEN /\ program' = [program EXCEPT !.source_text = Some(to_str(input.code))]
          /\ calls' = Append(calls, "glslang_program_add_source_text")
          /\ pc' = "generate"
     ELSE IF HasNul(input.source_file_name[1])
     THEN \* CString::new(source_file_name).unwrap()
          /\ program' = [program EXCEPT !.source_text = Some(to_str(input.code))]
          /\ calls' = Append(calls, "glslang_program_add_source_text")
          /\ pc' = "panicked"
     ELSE /\ program' = [program EXCEPT !.source_text = Some(to_str(input.code)),
                                        !.source_file = input.source_file_name]
          /\ calls' = calls \o <<"glslang_program_add_source_text",
                                 "glslang_program_set_source_file">>
          /\ pc' = "generate"
  /\ UNCHANGED <<input, shader, failed_step, result, results>>

\* src/lib.rs:108-119
Generate ==
  /\ pc = "generate"
  /\ \E words \in WordSeqs :
       program' = [program EXCEPT !.options = Some(SpvOptions(input.option_flags)),
                                  !.words = words]
  /\ calls' = Append(calls, "glslang_program_SPIRV_generate_with_options")
  /\ pc' = "readback"
  /\ UNCHANGED <<input, shader, failed_step, result, results>>

\* src/lib.rs:122-131: copy the words out, delete both objects, return Ok.
ReadBack ==
  /\ pc = "readback"
  /\ result' = [kind |-> "Ok", words |-> [i \in 1..Len(program.words) |-> program.words[i]]]
  /\ results' = results + 1
  /\ program' = [program EXCEPT !.live = FALSE]
  /\ shader' = [shader EXCEPT !.live = FALSE]
  /\ calls' = calls \o <<"glslang_program_delete", "glslang_shader_delete">>
  /\ pc' = "returned"
  /\ UNCHANGED <<input, failed_step>>

InitCompile ==
  /\ pc = "idle"
  /\ input = NoInput
  /\ shader = NoObject
  /\ program = NoObject
  /\ calls = <<>>
  /\ failed_step = None
  /\ result = NoResult
  /\ results = 0

NextCompile ==
  \/ Call /\ UNCHANGED <<guardVars, buildVars>>
  \/ ShaderCreate /\ UNCHANGED <<guardVars, buildVars>>
  \/ Preprocess /\ UNCHANGED <<guardVars, buildVars>>
  \/ Parse /\ UNCHANGED <<guardVars, buildVars>>
  \/ ProgramCreate /\ UNCHANGED <<guardVars, buildVars>>
  \/ Link /\ UNCHANGED <<guardVars, buildVars>>
  \/ AddSource /\ UNCHANGED <<guardVars, buildVars>>
  \/ Generate /\ UNCHANGED <<guardVars, buildVars>>
  \/ ReadBack /\ UNCHANGED <<guardVars, buildVars>>

-----------------------------------------------------------------------------
(* Process lifecycle: the tests of src/lib.rs:139-186 run as parallel      *)
(* threads.  Each holds the library's process-wide initialization for its  *)
(* scope through a ProcessGuard, whose constructor and destructor take the *)
(* process-wide lock around glslang_initialize_process and                 *)
(* glslang_finalize_process.                                               *)

Threads == 1..NumThreads

TestKinds == {"initialize_and_finalize_process", "compile_vertex_shader"}

\* Mutant of TestSteps: finalize is called right after initialize instead of
\* being deferred to the end of the scope.
TestSteps_finalize_not_deferred(k) ==
  IF k = "compile_vertex_shader"
  THEN <<"initialize", "finalize", "compile">>
  ELSE <<"initialize", "finalize">>

\* The steps of a test in the order they run: finalize is deferred to scope
\* exit, so it follows compile (src/lib.rs:142-143 and 150-153, 183).
TestSteps(k) ==
  IF k = "compile_vertex_shader"
  THEN <<"initialize", "compile", "finalize">>
  ELSE <<"initialize", "finalize">>

\* Mutant of AfterCompile: the early return on Err skips the finalize.
AfterCompile_err_skips_finalize(k, i, ok) ==
  IF ok THEN i + 1 ELSE Len(TestSteps(k)) + 1

\* Where the test continues when compile has returned: `compile(..)?` returns
\* from the test on Err, and the deferred finalize runs on that path as on the
\* Ok path (src/lib.rs:151-153, 183).
AfterCompile(k, i, ok) == i + 1

CurrentStep(t) ==
  IF ip[t] <= Len(TestSteps(kind[t])) THEN TestSteps(kind[t])[ip[t]] ELSE "exit"

\* Mutant of LockFree: the lock is never seen as held.
LockFree_always == TRUE

\* The process-wide lock can be taken.
LockFree == lock = 0

\* ProcessGuard construction and destruction: take the process-wide lock.
GuardLock(t) ==
  /\ CurrentStep(t) \in {"initialize", "finalize"}
  /\ tpc[t] = "enter"
  /\ LockFree
  /\ lock' = t
  /\ tpc' = [tpc EXCEPT ![t] = "locked"]
  /\ UNCHANGED <<kind, ip, NumberOfClients, seen, initialize_calls, finalize_calls>>

\* The underlying call begins: it reads the library's global state.
LibraryCallBegin(t) ==
  /\ CurrentStep(t) \in {"initialize", "finalize"}
  /\ tpc[t] = "locked"
  /\ seen' = [seen EXCEPT ![t] = NumberOfClients]
  /\ tpc' = [tpc EXCEPT ![t] = "in_call"]
  /\ UNCHANGED <<kind, ip, lock, NumberOfClients, initialize_calls, finalize_calls>>

\* glslang_initialize_process completes: one more client.
InitializeEnd(t) ==
  /\ CurrentStep(t) = "initialize"
  /\ tpc[t] = "in_call"
  /\ NumberOfClients' = seen[t] + 1
  /\ initialize_calls' = initialize_calls + 1
  /\ tpc' = [tpc EXCEPT ![t] = "called"]
  /\ UNCHANGED <<kind, ip, lock, seen, finalize_calls>>

\* glslang_finalize_process completes: one client fewer; the library is
\* uninitialized when none is left.
FinalizeEnd(t) ==
  /\ CurrentStep(t) = "finalize"
  /\ tpc[t] = "in_call"
  /\ NumberOfClients' = seen[t] - 1
  /\ finalize_calls' = finalize_calls + 1
  /\ tpc' = [tpc EXCEPT ![t] = "called"]
  /\ UNCHANGED <<kind, ip, lock, seen, initialize_calls>>

\* The lock is released when the underlying call has returned.
GuardUnlock(t) ==
  /\ CurrentStep(t) \in {"initialize", "finalize"}
  /\ tpc[t] = "called"
  /\ lock' = (IF lock = t THEN 0 ELSE lock)
  /\ ip' = [ip EXCEPT ![t] = ip[t] + 1]
  /\ tpc' = [tpc EXCEPT ![t] = "enter"]
  /\ UNCHANGED <<kind, NumberOfClients, seen, initialize_calls, finalize_calls>>

\* The test calls compile (src/lib.rs:183).
CompileBegin(t) ==
  /\ CurrentStep(t) = "compile"
  /\ tpc[t] = "enter"
  /\ tpc' = [tpc EXCEPT ![t] = "compiling"]
  /\ UNCHANGED <<kind, ip, lock, NumberOfClients, seen, initialize_calls, finalize_calls>>

\* compile returns Ok or Err.
CompileEnd(t) ==
  /\ CurrentStep(t) = "compile"
  /\ tpc[t] = "compiling"
  /\ \E ok \in BOOLEAN : ip' = [ip EXCEPT ![t] = AfterCompile(kind[t], ip[t], ok)]
  /\ tpc' = [tpc EXCEPT ![t] = "enter"]
  /\ UNCHANGED <<kind, lock, NumberOfClients, seen, initialize_calls, finalize_calls>>

IdleGuard ==
  /\ kind = [t \in Threads |-> "initialize_and_finalize_process"]
  /\ ip = [t \in Threads |-> 1]
  /\ tpc = [t \in Threads |-> "enter"]
  /\ lock = 0
  /\ NumberOfClients = 0
  /\ seen = [t \in Threads |-> 0]
  /\ initialize_calls = 0
  /\ finalize_calls = 0

StartGuard ==
  /\ kind \in [Threads -> TestKinds]
  /\ ip = [t \in Threads |-> 1]
  /\ tpc = [t \in Threads |-> "enter"]
  /\ lock = 0
  /\ NumberOfClients = 0
  /\ seen = [t \in Threads |-> 0]
  /\ initialize_calls = 0
  /\ finalize_calls = 0

NextGuard ==
  \/ \E t \in Threads : GuardLock(t) /\ UNCHANGED <<compileVars, buildVars>>
  \/ \E t \in Threads : LibraryCallBegin(t) /\ UNCHANGED <<compileVars, buildVars>>
  \/ \E t \in Threads : InitializeEnd(t) /\ UNCHANGED <<compileVars, buildVars>>
  \/ \E t \in Threads : FinalizeEnd(t) /\ UNCHANGED <<compileVars, buildVars>>
  \/ \E t \in Threads : GuardUnlock(t) /\ UNCHANGED <<compileVars, buildVars>>
  \/ \E t \in Threads : CompileBegin(t) /\ UNCHANGED <<compileVars, buildVars>>
  \/ \E t \in Threads : CompileEnd(t) /\ UNCHANGED <<compileVars, buildVars>>

-----------------------------------------------------------------------------
(* The build script (src/build.rs) *)

Hosts == {"windows", "linux", "macos"}
TargetOses == {"windows", "android", "linux", "macos"}
TargetArches == {"x86_64", "aarch64", "arm"}

\* Revision strings are texts over 'A', 'a' and 'b'.
Commits == SeqsUpTo({65, 97, 98}, MaxRevLen)

\* The bytes of prebuilt/version.txt: those letters, a newline, or 0xFF.
StampContents == SeqsUpTo({65, 97, 98, 10, 255}, MaxRevLen)

StampFiles ==
  {[state |-> "absent", content |-> <<>>]}
    \cup {[state |-> "present", content |-> c] : c \in StampContents}

StampUnread == [state |-> "unread", content |-> <<>>]

\* A path: the directory it is rooted at (a drive letter for a path through a
\* subst mapping) and the components below it.
Path(root, letter, rel) == [root |-> root, letter |-> letter, rel |-> rel]

ManifestDir == Path("CARGO_MANIFEST_DIR", 0, <<>>)
RawOutDir == Path("OUT_DIR", 0, <<>>)

Join(path, name) == [path EXCEPT !.rel = Append(path.rel, name)]

\* Builder::new (src/build.rs:73-80)
glslang_clone_dst_dir_path == Join(RawOutDir, "glslang-MAJOR.MINOR")

\* str::to_lowercase, on the ASCII letters.
to_lowercase(text) ==
  [i \in 1..Len(text) |-> IF text[i] >= 65 /\ text[i] <= 90 THEN text[i] + 32 ELSE text[i]]

\* Mutant of CommitsMatch: the comparison is case-sensitive.
CommitsMatch_case_sensitive(commit, prebuilt_commit) == commit = prebuilt_commit

\* src/build.rs:400
CommitsMatch(commit, prebuilt_commit) ==
  to_lowercase(commit) = to_lowercase(prebuilt_commit)

\* src/build.rs:372-386: the artifact directory of the target; None where
\* the match or one of its assert_eq! panics.
TargetDir(os, arch) ==
  IF os = "windows" /\ arch = "x86_64" THEN Some("x86_64-pc-windows-msvc")
  ELSE IF os = "android" /\ arch = "aarch64" THEN Some("aarch64-linux-android")
  ELSE IF os = "linux" /\ arch = "x86_64" THEN Some("x86_64-unknown-linux-gnu")
  ELSE None

Panic == [kind |-> "Panic"]
Ok(v) == [kind |-> "Ok", value |-> v]
Err(e) == [kind |-> "Err", error |-> e]

\* prebuilt::get_prebuilt_glslang_install_dir (src/build.rs:368-405)
get_prebuilt_glslang_install_dir(commit, os, arch, file) ==
  IF TargetDir(os, arch) = None THEN Panic
  ELSE IF file.state = "absent" THEN Err("VersionRegistryNotFound")
  ELSE IF ~IsUtf8(file.content) THEN Panic
  ELSE IF ~CommitsMatch(commit, to_str(file.content)) THEN Err("InvalidCommit")
  ELSE Ok(Join(Join(ManifestDir, "prebuilt"), TargetDir(os, arch)[1]))

\* The eight static libraries of src/build.rs:410-419.
LIBS ==
  << "GenericCodeGen", "glslang", "glslang-default-resource-limits", "HLSL",
     "MachineIndependent", "OGLCompiler", "OSDependent", "SPIRV" >>

\* ---- main (src/build.rs:408-521)

\* src/build.rs:421-429
MainStart ==
  /\ bpc = "start"
  /\ emitted' = emitted \o
       (IF cfg.feature THEN <<"rerun-if-changed=src/wrapper.h">>
        ELSE <<"rerun-if-changed=src/wrapper.h", "rerun-if-changed=prebuilt/version.txt">>)
  /\ \E os \in TargetOses, arch \in TargetArches :
       target' = Some([os |-> os, arch |-> arch])
  /\ bpc' = "manifest"
  /\ UNCHANGED <<cfg, ndk_home, repo, stamp, verify_result, fetch_steps, fetch_result,
                 cwd, saved_cwd, bitfield, drive_letter, mapped, launched, build_result,
                 written, install_dir_path, bindings>>

\* src/build.rs:433-436: the manifest is read and its glslang entry looked
\* up; either expect panics.
LoadManifest ==
  /\ bpc = "manifest"
  /\ \/ /\ bpc' = "panicked"       \* known_good.json missing or malformed
        /\ UNCHANGED repo
     \/ /\ bpc' = "panicked"       \* no entry named glslang
        /\ UNCHANGED repo
     \/ /\ \E commit \in Commits : repo' = Some(commit)
        /\ bpc' = IF cfg.feature THEN "fetch" ELSE "verify"
  /\ UNCHANGED <<cfg, target, ndk_home, stamp, verify_result, fetch_steps, fetch_result,
                 cwd, saved_cwd, bitfield, drive_letter, mapped, launched, build_result,
                 written, emitted, install_dir_path, bindings>>

\* src/build.rs:462 with 368-405: the stamp file is what the file system
\* holds when it is opened.
Verify ==
  /\ bpc = "verify"
  /\ \E file \in StampFiles :
       /\ stamp' = file
       /\ verify_result' =
            get_prebuilt_glslang_install_dir(repo[1], target[1].os, target[1].arch, file)
  /\ bpc' = IF verify_result'.kind = "Panic" THEN "panicked" ELSE "verified"
  /\ UNCHANGED <<cfg, target, ndk_home, repo, fetch_steps, fetch_result,
                 cwd, saved_cwd, bitfield, drive_letter, mapped, launched, build_result,
                 written, emitted, install_dir_path, bindings>>

\* Mutant of MainAfterVerify: a failed verification falls back to the
\* prebuilt directory instead of terminating.
MainAfterVerify_degraded_mode ==
  /\ bpc = "verified"
  /\ install_dir_path' =
       IF verify_result.kind = "Ok"
       THEN Some(verify_result.value)
       ELSE Some(Join(ManifestDir, "prebuilt"))
  /\ bpc' = "link"
  /\ UNCHANGED <<cfg, target, ndk_home, repo, stamp, verify_result, fetch_steps,
                 fetch_result, cwd, saved_cwd, bitfield, drive_letter, mapped, launched,
                 build_result, written, emitted, bindings>>

\* src/build.rs:462-468
MainAfterVerify ==
  /\ bpc = "verified"
  /\ IF verify_result.kind = "Ok"
     THEN /\ install_dir_path' = Some(verify_result.value)
          /\ bpc' = "link"
     ELSE /\ bpc' = "panicked"
          /\ UNCHANGED install_dir_path
  /\ UNCHANGED <<cfg, target, ndk_home, repo, stamp, verify_result, fetch_steps,
                 fetch_result, cwd, saved_cwd, bitfield, drive_letter, mapped, launched,
                 build_result, written, emitted, bindings>>

\* src/build.rs:472-481
EmitLink ==
  /\ bpc = "link"
  /\ emitted' = emitted
       \o <<"rustc-link-search=native=<install>/lib">>
       \o [i \in 1..Len(LIBS) |-> "rustc-link-lib=static=" \o LIBS[i]]
       \o (IF target[1].os = "android" THEN <<"rustc-link-lib=c++_shared">> ELSE <<>>)
  /\ bpc' = "bindgen"
  /\ UNCHANGED <<cfg, target, ndk_home, repo, stamp, verify_result, fetch_steps,
                 fetch_result, cwd, saved_cwd, bitfield, drive_letter, mapped, launched,
                 build_result, written, install_dir_path, bindings>>

\* env::var("ANDROID_NDK_HOME"): the environment does not change between two
\* reads.
ReadNdkHome(value) ==
  /\ value \in {"set", "unset"}
  /\ ndk_home # "unread" => value = ndk_home

\* src/build.rs:483-520
GenerateBindings ==
  /\ bpc = "bindgen"
  /\ IF target[1].os = "android"
     THEN \E value \in {"set", "unset"} :
            /\ ReadNdkHome(value)
            /\ ndk_home' = value
            /\ IF value = "unset" \/ target[1].arch \notin {"aarch64", "arm"}
               THEN bpc' = "panicked" /\ UNCHANGED bindings
               ELSE \E generated \in BOOLEAN, wrote \in BOOLEAN :
                      IF generated /\ wrote
                      THEN bpc' = "done" /\ bindings' = "written"
                      ELSE bpc' = "panicked" /\ UNCHANGED bindings
     ELSE /\ UNCHANGED ndk_home
          /\ \E generated \in BOOLEAN, wrote \in BOOLEAN :
               IF generated /\ wrote
               THEN bpc' = "done" /\ bindings' = "written"
               ELSE bpc' = "panicked" /\ UNCHANGED bindings
  /\ UNCHANGED <<cfg, target, repo, stamp, verify_result, fetch_steps,
                 fetch_result, cwd, saved_cwd, bitfield, drive_letter, mapped, launched,
                 build_result, written, emitted, install_dir_path>>

\* ---- Builder::fetch_glslang (src/build.rs:87-149)

\* How starting an external process can end: it cannot be started, or it
\* exits with a zero or a non-zero status.
SpawnOutcomes == {"spawn_error", "zero", "nonzero"}

\* The five git commands of src/build.rs:104-136, in order.
FetchCommands ==
  << "git init",
     "git remote add origin <url>",
     "git fetch --depth 1 origin <commit>",
     "git reset --hard FETCH_HEAD",
     "git clone https://github.com/google/googletest.git External/googletest" >>

\* src/build.rs:138-141
SyncScript == "update_glslang_sources.py"

\* src/build.rs:143-148: `output` is the output of the last command bound to
\* that name, the googletest clone.
FetchOutcome(steps) ==
  IF steps[Len(FetchCommands)].status = "zero"
  THEN Ok("unit")
  ELSE Err("Failed to fetch glslang !")

\* src/build.rs:92-100.  A failing create_dir_all or set_current_dir panics;
\* the deferred set_current_dir(original_current_dir) leaves cwd as it was.
FetchBegin ==
  /\ bpc = "fetch"
  /\ saved_cwd' = Some(cwd)
  /\ \E dirs_ok \in BOOLEAN :
       IF dirs_ok
       THEN cwd' = glslang_clone_dst_dir_path /\ bpc' = "fetch_git"
       ELSE cwd' = cwd /\ bpc' = "panicked"
  /\ UNCHANGED <<cfg, target, ndk_home, repo, stamp, verify_result, fetch_steps,
                 fetch_result, bitfield, drive_letter, mapped, launched, build_result,
                 written, emitted, install_dir_path, bindings>>

\* src/build.rs:104-136: the next git command.  `.output()?` returns the
\* error when the process cannot be started; the exit status is not looked at.
FetchGit ==
  /\ bpc = "fetch_git"
  /\ LET i == Len(fetch_steps) + 1
     IN  \E st \in SpawnOutcomes :
           /\ fetch_steps' = Append(fetch_steps, [name |-> FetchCommands[i], status |-> st])
           /\ IF st = "spawn_error"
              THEN /\ fetch_result' = Err("io::Error")
                   /\ cwd' = saved_cwd[1]
                   /\ bpc' = "fetched"
              ELSE /\ UNCHANGED <<fetch_result, cwd>>
                   /\ bpc' = IF i = Len(FetchCommands) THEN "fetch_script" ELSE "fetch_git"
  /\ UNCHANGED <<cfg, target, ndk_home, repo, stamp, verify_result, saved_cwd,
                 bitfield, drive_letter, mapped, launched, build_result, written,
                 emitted, install_dir_path, bindings>>

\* src/build.rs:138-148: the source-sync script, then the result.
\* `.status().unwrap()` panics when the script cannot be started.
FetchScript ==
  /\ bpc = "fetch_script"
  /\ \E st \in SpawnOutcomes :
       /\ fetch_steps' = Append(fetch_steps, [name |-> SyncScript, status |-> st])
       /\ IF st = "spawn_error"
          THEN bpc' = "panicked" /\ UNCHANGED fetch_result
          ELSE bpc' = "fetched" /\ fetch_result' = FetchOutcome(fetch_steps')
  /\ cwd' = saved_cwd[1]
  /\ UNCHANGED <<cfg, target, ndk_home, repo, stamp, verify_result, saved_cwd,
                 bitfield, drive_letter, mapped, launched, build_result, written,
                 emitted, install_dir_path, bindings>>

\* src/build.rs:440: builder.fetch_glslang(repo).unwrap()
MainAfterFetch ==
  /\ bpc = "fetched"
  /\ IF fetch_result.kind = "Ok"
     THEN /\ bpc' = "build"
          /\ fetch_steps' = <<>>
          /\ saved_cwd' = None
     ELSE /\ bpc' = "panicked"
          /\ UNCHANGED <<fetch_steps, saved_cwd>>
  /\ UNCHANGED <<cfg, target, ndk_home, repo, stamp, verify_result, fetch_result, cwd,
                 bitfield, drive_letter, mapped, launched, build_result, written,
                 emitted, install_dir_path, bindings>>

\* ---- Builder::build_glslang (src/build.rs:151-312)

\* A..Z have bits 0..25 of GetLogicalDrives().
DriveLetterCount == 26

Letters ==
  << "A", "B", "C", "D", "E", "F", "G", "H", "I", "J", "K", "L", "M",
     "N", "O", "P", "Q", "R", "S", "T", "U", "V", "W", "X", "Y", "Z" >>

\* The in-use bitmasks drawn: any combination of the low letters, with the
\* letters above them all free or all in use.
DriveBitfields ==
  { low + high : low \in 0..(2^NumLowDrives - 1),
                 high \in {0, 2^DriveLetterCount - 2^NumLowDrives} }

\* The loop of src/build.rs:338-344 from letter number `n` on (1 is 'A'):
\* it runs while bits are left in `bits`.
RECURSIVE ScanDrives(_, _)
ScanDrives(bits, n) ==
  IF bits = 0 THEN <<>>
  ELSE (IF bits % 2 = 0 THEN <<Letters[n]>> ELSE <<>>) \o ScanDrives(bits \div 2, n + 1)

\* builder::get_win32_unused_drive_letters (src/build.rs:332-346)
get_win32_unused_drive_letters(bits) == ScanDrives(bits, 1)

BuilderError(name, output) == [kind |-> "Err", error |-> name, output |-> output]
NoOutput == "none"

\* src/build.rs:198-200, 205-207
build_dir(os, arch) == "build-" \o os \o "-" \o arch
install_dir == "install"

\* src/build.rs:183-190: the clone directory seen through the mapping.
mapped_glslang_clone_dst_dir_path(host, letter) ==
  IF host = "windows"
  THEN Path("DRIVE", letter, <<"glslang-MAJOR.MINOR">>)
  ELSE glslang_clone_dst_dir_path

\* src/build.rs:315-318
add_cmake_glslang_options(args) ==
  args \o <<"-DENABLE_OPT=OFF", "-DENABLE_SPVREMAPPER=OFF">>

\* Mutant of add_cmake_spirv_tools_options: the executables are not skipped.
add_cmake_spirv_tools_options_tests_only(args) ==
  args \o <<"-DSPIRV_SKIP_TESTS=ON">>

\* src/build.rs:319-322
add_cmake_spirv_tools_options(args) ==
  args \o <<"-DSPIRV_SKIP_TESTS=ON", "-DSPIRV_SKIP_EXECUTABLES=ON">>

\* src/build.rs:230-234
android_abi_name(arch) ==
  IF arch = "aarch64" THEN Some("arm64-v8a")
  ELSE IF arch = "arm" THEN Some("armeabi-v7a")
  ELSE None

\* The arguments of the configure process (src/build.rs:211-278) for a
\* target the match accepts.
ConfigureArgs(os, arch) ==
  IF os = "windows" THEN
    add_cmake_spirv_tools_options(add_cmake_glslang_options(
      <<"..", "-DCMAKE_INSTALL_PREFIX=" \o install_dir>>))
  ELSE IF os = "android" THEN
    add_cmake_spirv_tools_options(add_cmake_glslang_options(
      <<"..", "-G", "Unix Makefiles", "-DCMAKE_INSTALL_PREFIX=" \o install_dir>>))
    \o << "-DANDROID_ABI=" \o android_abi_name(arch)[1],
          "-DCMAKE_BUILD_TYPE=Release",
          "-DANDROID_STL=c++_shared",
          "-DANDROID_PLATFORM=android-24",
          "-DCMAKE_SYSTEM_NAME=Android",
          "-DANDROID_TOOLCHAIN=clang",
          "-DANDROID_ARM_MODE=arm",
          "-DCMAKE_MAKE_PROGRAM=<ANDROID_NDK_HOME>/prebuilt/windows-x86_64/bin/make.exe",
          "-DCMAKE_TOOLCHAIN_FILE=<ANDROID_NDK_HOME>/build/cmake/android.toolchain.cmake" >>
  ELSE
    add_cmake_spirv_tools_options(add_cmake_glslang_options(
      <<"..", "-DCMAKE_BUILD_TYPE=Release", "-DCMAKE_INSTALL_PREFIX=" \o install_dir>>))

\* src/build.rs:280-311: the build process of the host.
BuildCommand(host) ==
  IF host = "windows"
  THEN [ name |-> "cmake",
         args |-> <<"--build", ".", "--config", "Release", "--target", install_dir,
                    "--parallel", "8">> ]
  ELSE [ name |-> "make", args |-> <<"-j4", "install">> ]

\* Mutant of BuildExit: the mapping is removed but the directory is not
\* restored.
BuildExit_cwd_not_restored ==
  /\ mapped' = IF cfg.host = "windows" THEN mapped \ {drive_letter[1]} ELSE mapped
  /\ cwd' = cwd

\* Mutant of BuildExit: the directory is restored but the mapping is left.
BuildExit_mapping_left ==
  /\ mapped' = mapped
  /\ cwd' = saved_cwd[1]

\* What leaving build_glslang runs, by return or by unwinding, once the
\* mapping is set up: the deferred `subst X: /d` (src/build.rs:193-196), then
\* the deferred set_current_dir (170-172).  Both repeat what succeeded
\* earlier in the same call: `subst` was started at line 185 (or the call
\* panicked there, before this block was registered) and the entry directory
\* was the current one at line 169.  `subst X: /d` removes the mapping of X:
\* when there is one; when there is none it exits non-zero, which is not
\* looked at, and nothing changes.
BuildExit ==
  /\ mapped' = IF cfg.host = "windows" THEN mapped \ {drive_letter[1]} ELSE mapped
  /\ cwd' = saved_cwd[1]

\* src/build.rs:153, 169-174
BuildBegin ==
  /\ bpc = "build"
  /\ IF cfg.host \notin {"windows", "linux"}
     THEN bpc' = "panicked" /\ UNCHANGED <<saved_cwd, cwd>>
     ELSE /\ saved_cwd' = Some(cwd)
          /\ \E dir_ok \in BOOLEAN :
               IF dir_ok
               THEN /\ cwd' = glslang_clone_dst_dir_path
                    /\ bpc' = IF cfg.host = "windows" THEN "build_drive" ELSE "build_dirs"
               ELSE cwd' = cwd /\ bpc' = "panicked"
  /\ UNCHANGED <<cfg, target, ndk_home, repo, stamp, verify_result, fetch_steps,
                 fetch_result, bitfield, drive_letter, mapped, launched, build_result,
                 written, emitted, install_dir_path, bindings>>

\* src/build.rs:176-180 (host windows)
BuildAllocateDrive ==
  /\ bpc = "build_drive"
  /\ \E bits \in DriveBitfields :
       /\ bitfield' = Some(bits)
       /\ LET unused_drive_letters == get_win32_unused_drive_letters(bits)
          IN  IF unused_drive_letters = <<>>
              THEN /\ build_result' = BuilderError("NoAvailableDriveLetter", NoOutput)
                   /\ cwd' = saved_cwd[1]
                   /\ bpc' = "built"
                   /\ UNCHANGED drive_letter
              ELSE /\ drive_letter' = Some(unused_drive_letters[1])
                   /\ bpc' = "build_subst"
                   /\ UNCHANGED <<build_result, cwd>>
  /\ UNCHANGED <<cfg, target, ndk_home, repo, stamp, verify_result, fetch_steps,
                 fetch_result, saved_cwd, mapped, launched, written, emitted,
                 install_dir_path, bindings>>

\* src/build.rs:182-188 (host windows): `subst X: OUT_DIR`.  Its exit status
\* is not looked at; the mapping exists iff it exited zero.
BuildSubst ==
  /\ bpc = "build_subst"
  /\ \E st \in SpawnOutcomes :
       /\ launched' = Append(launched,
            [name |-> "subst", args |-> <<drive_letter[1] \o ":", "<OUT_DIR>">>, status |-> st])
       /\ IF st = "spawn_error"
          THEN bpc' = "panicked" /\ cwd' = saved_cwd[1] /\ UNCHANGED mapped
          ELSE /\ bpc' = "build_dirs"
               /\ mapped' = IF st = "zero" THEN mapped \cup {drive_letter[1]} ELSE mapped
               /\ UNCHANGED cwd
  /\ UNCHANGED <<cfg, target, ndk_home, repo, stamp, verify_result, fetch_steps,
                 fetch_result, saved_cwd, bitfield, drive_letter, build_result,
                 written, emitted, install_dir_path, bindings>>

\* src/build.rs:198-208: the build and install directories are created
\* through the mapped path and the build directory is entered; each unwrap
\* panics on failure, as it must when the mapping does not exist.
BuildDirs ==
  /\ bpc = "build_dirs"
  /\ \E dirs_ok \in BOOLEAN :
       IF dirs_ok /\ (cfg.host = "windows" => drive_letter[1] \in mapped)
       THEN /\ cwd' = Join(mapped_glslang_clone_dst_dir_path(cfg.host,
                             IF cfg.host = "windows" THEN drive_letter[1] ELSE ""),
                           build_dir(target[1].os, target[1].arch))
            /\ bpc' = "build_configure"
            /\ UNCHANGED mapped
       ELSE bpc' = "panicked" /\ BuildExit
  /\ UNCHANGED <<cfg, target, ndk_home, repo, stamp, verify_result, fetch_steps,
                 fetch_result, saved_cwd, bitfield, drive_letter, launched,
                 build_result, written, emitted, install_dir_path, bindings>>

\* src/build.rs:210-278
BuildConfigure ==
  /\ bpc = "build_configure"
  /\ LET os == target[1].os
         arch == target[1].arch
     IN  IF os \notin {"windows", "android", "linux"}
         THEN bpc' = "panicked" /\ BuildExit
              /\ UNCHANGED <<ndk_home, launched, build_result>>
         ELSE IF os = "android" /\ cfg.host # "windows"
         THEN bpc' = "panicked" /\ BuildExit
              /\ UNCHANGED <<ndk_home, launched, build_result>>
         ELSE \E value \in {"set", "unset"}, st \in SpawnOutcomes :
                /\ os = "android" => ReadNdkHome(value)
                /\ os # "android" => value = "set"
                /\ ndk_home' = IF os = "android" THEN value ELSE ndk_home
                /\ IF os = "android" /\ (value = "unset" \/ android_abi_name(arch) = None)
                   THEN /\ st = "zero"
                        /\ bpc' = "panicked" /\ BuildExit
                        /\ UNCHANGED <<launched, build_result>>
                   ELSE /\ launched' = Append(launched,
                             [name |-> "cmake", args |-> ConfigureArgs(os, arch), status |-> st])
                        /\ IF st = "spawn_error"
                           THEN bpc' = "panicked" /\ BuildExit /\ UNCHANGED build_result
                           ELSE IF st = "nonzero"
                           THEN /\ build_result' = BuilderError("ConfigureFailed", Len(launched'))
                                /\ bpc' = "built" /\ BuildExit
                           ELSE /\ bpc' = "build_build"
                                /\ UNCHANGED <<build_result, mapped, cwd>>
  /\ UNCHANGED <<cfg, target, repo, stamp, verify_result, fetch_steps, fetch_result,
                 saved_cwd, bitfield, drive_letter, written, emitted, install_dir_path,
                 bindings>>

\* src/build.rs:280-311
BuildBuild ==
  /\ bpc = "build_build"
  /\ \E st \in SpawnOutcomes :
       /\ launched' = Append(launched,
            [name |-> BuildCommand(cfg.host).name, args |-> BuildCommand(cfg.host).args,
             status |-> st])
       /\ IF st = "spawn_error"
          THEN bpc' = "panicked" /\ UNCHANGED build_result
          ELSE /\ bpc' = "built"
               /\ build_result' =
                    IF st = "zero"
                    THEN Ok(Join(Join(glslang_clone_dst_dir_path,
                                      build_dir(target[1].os, target[1].arch)), install_dir))
                    ELSE BuilderError("BuildFailed", Len(launched'))
  /\ BuildExit
  /\ UNCHANGED <<cfg, target, ndk_home, repo, stamp, verify_result, fetch_steps,
                 fetch_result, saved_cwd, bitfield, drive_letter, written, emitted,
                 install_dir_path, bindings>>

\* Mutant of MainAfterBuild: the output of a failed configure is not written.
MainAfterBuild_configure_output_swallowed ==
  /\ bpc = "built"
  /\ IF build_result.kind = "Ok"
     THEN /\ install_dir_path' = Some(build_result.value)
          /\ bpc' = "link"
          /\ UNCHANGED written
     ELSE /\ written' =
               IF build_result.error = "BuildFailed"
               THEN written \o <<[of |-> build_result.output, stream |-> "stdout"],
                                 [of |-> build_result.output, stream |-> "stderr"]>>
               ELSE written
          /\ bpc' = "panicked"
          /\ UNCHANGED install_dir_path
  /\ UNCHANGED <<cfg, target, ndk_home, repo, stamp, verify_result, fetch_steps,
                 fetch_result, cwd, saved_cwd, bitfield, drive_letter, mapped,
                 launched, build_result, emitted, bindings>>

\* src/build.rs:442-459
MainAfterBuild ==
  /\ bpc = "built"
  /\ IF build_result.kind = "Ok"
     THEN /\ install_dir_path' = Some(build_result.value)
          /\ bpc' = "link"
          /\ UNCHANGED written
     ELSE /\ written' =
               IF build_result.error \in {"ConfigureFailed", "BuildFailed"}
               THEN written \o <<[of |-> build_result.output, stream |-> "stdout"],
                                 [of |-> build_result.output, stream |-> "stderr"]>>
               ELSE written
          /\ bpc' = "panicked"
          /\ UNCHANGED install_dir_path
  /\ UNCHANGED <<cfg, target, ndk_home, repo, stamp, verify_result, fetch_steps,
                 fetch_result, cwd, saved_cwd, bitfield, drive_letter, mapped,
                 launched, build_result, emitted, bindings>>

IdleBuild ==
  /\ cfg = [feature |-> FALSE, host |-> "linux"]
  /\ bpc = "start"
  /\ target = None
  /\ ndk_home = "unread"
  /\ repo = None
  /\ stamp = StampUnread
  /\ verify_result = NoResult
  /\ fetch_steps = <<>>
  /\ fetch_result = NoResult
  /\ cwd = ManifestDir
  /\ saved_cwd = None
  /\ bitfield = None
  /\ drive_letter = None
  /\ mapped = {}
  /\ launched = <<>>
  /\ build_result = NoResult
  /\ written = <<>>
  /\ emitted = <<>>
  /\ install_dir_path = None
  /\ bindings = "none"

\* The build script starts in the package directory, under some host and
\* feature selection; nothing is mapped by it yet.
StartBuild ==
  /\ cfg \in [feature : BOOLEAN, host : Hosts]
  /\ bpc = "start"
  /\ target = None
  /\ ndk_home = "unread"
  /\ repo = None
  /\ stamp = StampUnread
  /\ verify_result = NoResult
  /\ fetch_steps = <<>>
  /\ fetch_result = NoResult
  /\ cwd = ManifestDir
  /\ saved_cwd = None
  /\ bitfield = None
  /\ drive_letter = None
  /\ mapped = {}
  /\ launched = <<>>
  /\ build_result = NoResult
  /\ written = <<>>
  /\ emitted = <<>>
  /\ install_dir_path = None
  /\ bindings = "none"

NextBuild ==
  \/ MainStart /\ UNCHANGED <<compileVars, guardVars>>
  \/ LoadManifest /\ UNCHANGED <<compileVars, guardVars>>
  \/ Verify /\ UNCHANGED <<compileVars, guardVars>>
  \/ MainAfterVerify /\ UNCHANGED <<compileVars, guardVars>>
  \/ FetchBegin /\ UNCHANGED <<compileVars, guardVars>>
  \/ FetchGit /\ UNCHANGED <<compileVars, guardVars>>
  \/ FetchScript /\ UNCHANGED <<compileVars, guardVars>>
  \/ MainAfterFetch /\ UNCHANGED <<compileVars, guardVars>>
  \/ BuildBegin /\ UNCHANGED <<compileVars, guardVars>>
  \/ BuildAllocateDrive /\ UNCHANGED <<compileVars, guardVars>>
  \/ BuildSubst /\ UNCHANGED <<compileVars, guardVars>>
  \/ BuildDirs /\ UNCHANGED <<compileVars, guardVars>>
  \/ BuildConfigure /\ UNCHANGED <<compileVars, guardVars>>
  \/ BuildBuild /\ UNCHANGED <<compileVars, guardVars>>
  \/ MainAfterBuild /\ UNCHANGED <<compileVars, guardVars>>
  \/ EmitLink /\ UNCHANGED <<compileVars, guardVars>>
  \/ GenerateBindings /\ UNCHANGED <<compileVars, guardVars>>

-----------------------------------------------------------------------------
(* Specifications *)

Init == InitCompile /\ IdleGuard /\ IdleBuild

InitGuard == StartGuard /\ InitCompile /\ IdleBuild

InitBuild == StartBuild /\ InitCompile /\ IdleGuard

Next == NextCompile

Spec == Init /\ [][Next]_vars

SpecGuard == InitGuard /\ [][NextGuard]_vars

SpecBuild == InitBuild /\ [][NextBuild]_vars

-----------------------------------------------------------------------------
(* Properties of compile *)

Ended == pc \in {"returned", "panicked"}

\* The native entry points of compile in program order (src/lib.rs:76-129).
StepOrder ==
  << "glslang_shader_create", "glslang_shader_set_preamble",
     "glslang_shader_preprocess", "glslang_shader_parse",
     "glslang_program_create", "glslang_program_add_shader",
     "glslang_program_link",
     "glslang_program_add_source_text", "glslang_program_set_source_file",
     "glslang_program_SPIRV_generate_with_options",
     "glslang_program_delete", "glslang_shader_delete" >>

IndexIn(seq, x) == CHOOSE i \in 1..Len(seq) : seq[i] = x

\* `calls` follows StepOrder: every call is a known step and each call comes
\* later in StepOrder than the one before it.
InStepOrder ==
  /\ \A i \in 1..Len(calls) : \E j \in 1..Len(StepOrder) : StepOrder[j] = calls[i]
  /\ \A i \in 1..(Len(calls) - 1) :
       IndexIn(StepOrder, calls[i]) < IndexIn(StepOrder, calls[i + 1])
  /\ (calls # <<>>) => calls[1] = "glslang_shader_create"

Called(fn) == \E i \in 1..Len(calls) : calls[i] = fn

\* The object whose step failed: the shader for preprocess and parse, the
\* program for link.
FailingObject ==
  IF failed_step = Some("glslang_program_link") THEN program ELSE shader

FailingLogsDecode == IsUtf8(FailingObject.info_log) /\ IsUtf8(FailingObject.debug_log)

OkOnlyAfterAllSteps ==
  result.kind = "Ok" =>
    /\ Called("glslang_shader_preprocess")
    /\ Called("glslang_shader_parse")
    /\ Called("glslang_program_link")
    /\ Called("glslang_program_SPIRV_generate_with_options")

\* C1: when compile has returned (on an error path or with Ok), no native
\* shader or program object created by the call is still alive.
C1_NoNativeObjectOutlivesCall ==
  pc = "returned" => (~shader.live /\ ~program.live)

\* C2 as stated: the steps run in the fixed order; a falsy status of
\* preprocess, parse or link ends the call in the Err outcome with no later
\* step; Ok comes only after preprocess, parse, link and generate; every call
\* that has ended produced exactly one result, Ok or Err.
C2_Original ==
  /\ InStepOrder
  /\ failed_step # None =>
       /\ pc = "returned" /\ result.kind = "Err"
       /\ calls[Len(calls)] = failed_step[1]
  /\ OkOnlyAfterAllSteps
  /\ Ended => (results = 1 /\ result.kind \in {"Ok", "Err"})

\* C2 amended: as C2, except that a falsy status ends the call in Err only
\* when the failing object's logs decode as UTF-8 and in a panic otherwise
\* (still with no later step), and that a call which panics produces no
\* result while a call which returns produces exactly one.
C2_StepOrderAndSingleResult ==
  /\ InStepOrder
  /\ failed_step # None =>
       /\ calls[Len(calls)] = failed_step[1]
       /\ IF FailingLogsDecode
          THEN pc = "returned" /\ result.kind = "Err"
          ELSE pc = "panicked" /\ result = NoResult
  /\ OkOnlyAfterAllSteps
  /\ pc = "returned" => (results = 1 /\ result.kind \in {"Ok", "Err"})
  /\ pc # "returned" => (results = 0 /\ result = NoResult)

\* C2 witness: parse returned a falsy status after a successful preprocess
\* and the call ended in Err.
C2_Witness ==
  /\ pc = "returned" /\ result.kind = "Err"
  /\ failed_step = Some("glslang_shader_parse")
  /\ Called("glslang_shader_preprocess")

\* The error log C3 describes: context names the failing step, both logs are
\* the decoded logs of the failing object.
ErrorLogOfFailingObject ==
  /\ pc = "returned"
  /\ result.kind = "Err"
  /\ result.context = failed_step[1]
  /\ result.info_log = to_str(FailingObject.info_log)
  /\ result.debug_log = to_str(FailingObject.debug_log)

\* C3 as stated: whenever preprocess, parse or link returned a falsy status,
\* compile returns (does not abort) an error log whose context names the step
\* and whose logs are those of the failing object.
C3_Original == failed_step # None => ErrorLogOfFailingObject

\* C3 amended: that holds whenever both logs of the failing object are valid
\* UTF-8; when either is not, compile panics and returns nothing.
C3_ErrorLogFromFailingObject ==
  failed_step # None =>
    IF FailingLogsDecode
    THEN ErrorLogOfFailingObject
    ELSE pc = "panicked" /\ result = NoResult

\* C3 witness: link failed and the error log carries the program's logs,
\* which differ from the shader's.
C3_Witness ==
  /\ failed_step = Some("glslang_program_link")
  /\ result.kind = "Err"
  /\ result.info_log = program.info_log
  /\ program.info_log # shader.info_log

-----------------------------------------------------------------------------
(* Properties of the process lifecycle *)

Compiling(t) == CurrentStep(t) = "compile" /\ tpc[t] = "compiling"

InLibraryCall(t) == CurrentStep(t) \in {"initialize", "finalize"} /\ tpc[t] = "in_call"

AllThreadsDone == \A t \in Threads : CurrentStep(t) = "exit"

-----------------------------------------------------------------------------
(* Properties of the build script *)

VerifyRan == stamp.state # "unread"

StampMatchesCommit ==
  /\ stamp.state = "present"
  /\ to_lowercase(stamp.content) = to_lowercase(repo[1])

\* The prebuilt directory of each supported target.
PrebuiltDirOf(os) ==
  IF os = "windows" THEN "x86_64-pc-windows-msvc"
  ELSE IF os = "android" THEN "aarch64-linux-android"
  ELSE "x86_64-unknown-linux-gnu"

\* What C7 says of a verification that ran.
VerifyDecidesByStamp ==
  /\ verify_result.kind = "Ok" <=> StampMatchesCommit
  /\ verify_result.kind = "Ok" =>
       verify_result.value =
         Path("CARGO_MANIFEST_DIR", 0, <<"prebuilt", PrebuiltDirOf(target[1].os)>>)
  /\ (stamp.state = "present" /\ ~StampMatchesCommit) =>
       verify_result = Err("InvalidCommit")
  /\ stamp.state = "absent" => verify_result = Err("VersionRegistryNotFound")

\* C7 as stated: verification succeeds, with the target's install directory,
\* iff the stamp exists and equals the pinned revision ignoring case; it fails
\* with InvalidCommit when the stamp exists and differs and with
\* VersionRegistryNotFound when the stamp is absent, whatever the revision.
C7_Original == VerifyRan => VerifyDecidesByStamp

SupportedPrebuiltTarget ==
  \/ target[1].os = "windows" /\ target[1].arch = "x86_64"
  \/ target[1].os = "android" /\ target[1].arch = "aarch64"
  \/ target[1].os = "linux" /\ target[1].arch = "x86_64"

\* C7 amended: that holds for the three supported targets and a stamp that
\* is absent or valid UTF-8; for any other target, and for a stamp that is
\* not valid UTF-8, verification panics.
C7_VerifyByStamp ==
  VerifyRan =>
    IF SupportedPrebuiltTarget /\ (stamp.state = "absent" \/ IsUtf8(stamp.content))
    THEN VerifyDecidesByStamp /\ verify_result.kind \in {"Ok", "Err"}
    ELSE verify_result = Panic /\ bpc = "panicked"

\* C7 witness: verification succeeded on a stamp that differs from the
\* pinned revision in case only.
C7_Witness ==
  /\ VerifyRan
  /\ verify_result.kind = "Ok"
  /\ stamp.content # repo[1]

BitSet(bits, n) == (bits \div 2^(n - 1)) % 2 = 1

AllDrivesInUse(bits) == \A n \in 1..DriveLetterCount : BitSet(bits, n)

EarliestFreeLetter(bits) ==
  Letters[CHOOSE n \in 1..DriveLetterCount :
            /\ ~BitSet(bits, n)
            /\ \A m \in 1..(n - 1) : BitSet(bits, m)]

\* C8: once the in-use bitmask is read, allocation fails with
\* NoAvailableDriveLetter iff every letter A-Z is in use, and otherwise picks
\* the alphabetically earliest free letter.
C8_DriveLetterAllocation ==
  bitfield # None =>
    IF AllDrivesInUse(bitfield[1])
    THEN build_result = BuilderError("NoAvailableDriveLetter", NoOutput)
    ELSE drive_letter = Some(EarliestFreeLetter(bitfield[1]))

IsConfigure(p) == p.name = "cmake" /\ p.args[1] = ".."

ArgSet(p) == {p.args[i] : i \in 1..Len(p.args)}

BaseFlags ==
  { "-DENABLE_OPT=OFF", "-DENABLE_SPVREMAPPER=OFF",
    "-DSPIRV_SKIP_TESTS=ON", "-DSPIRV_SKIP_EXECUTABLES=ON" }

\* Passed for every target: the source directory and the install prefix.
CommonArgs == {"..", "-DCMAKE_INSTALL_PREFIX=install"}

AbiOf(arch) == IF arch = "aarch64" THEN "arm64-v8a" ELSE "armeabi-v7a"

\* The additions C9 names: none for windows, the release build type for
\* linux, and for android the ABI name, a statically linked runtime, the
\* minimum API level and the toolchain file.
ClaimedAdditions(os, arch) ==
  IF os = "windows" THEN {}
  ELSE IF os = "linux" THEN {"-DCMAKE_BUILD_TYPE=Release"}
  ELSE { "-DANDROID_ABI=" \o AbiOf(arch),
         "-DANDROID_STL=c++_static",
         "-DANDROID_PLATFORM=android-24",
         "-DCMAKE_TOOLCHAIN_FILE=<ANDROID_NDK_HOME>/build/cmake/android.toolchain.cmake" }

\* The additions the configure step passes.
ActualAdditions(os, arch) ==
  IF os = "windows" THEN {}
  ELSE IF os = "linux" THEN {"-DCMAKE_BUILD_TYPE=Release"}
  ELSE { "-G", "Unix Makefiles",
         "-DANDROID_ABI=" \o AbiOf(arch),
         "-DCMAKE_BUILD_TYPE=Release",
         "-DANDROID_STL=c++_shared",
         "-DANDROID_PLATFORM=android-24",
         "-DCMAKE_SYSTEM_NAME=Android",
         "-DANDROID_TOOLCHAIN=clang",
         "-DANDROID_ARM_MODE=arm",
         "-DCMAKE_MAKE_PROGRAM=<ANDROID_NDK_HOME>/prebuilt/windows-x86_64/bin/make.exe",
         "-DCMAKE_TOOLCHAIN_FILE=<ANDROID_NDK_HOME>/build/cmake/android.toolchain.cmake" }

\* C9 as stated: beside the source directory and the install prefix, every
\* configure invocation passes the four base flags plus exactly the additions
\* the claim names for the target.
C9_Original ==
  \A i \in 1..Len(launched) :
    IsConfigure(launched[i]) =>
      ArgSet(launched[i]) \ CommonArgs
        = BaseFlags \cup ClaimedAdditions(target[1].os, target[1].arch)

\* C9 amended: every configure invocation passes the source directory, the
\* install prefix and the four base flags, plus nothing for windows, the
\* release build type for linux, and for android the Unix Makefiles generator,
\* the ABI name, the release build type, the shared C++ runtime, the minimum
\* API level, the system name, the clang toolchain, the ARM mode, and the make
\* program and toolchain file under ANDROID_NDK_HOME; no argument twice.
C9_ConfigureOptions ==
  \A i \in 1..Len(launched) :
    IsConfigure(launched[i]) =>
      /\ ArgSet(launched[i])
           = CommonArgs \cup BaseFlags \cup ActualAdditions(target[1].os, target[1].arch)
      /\ Cardinality(ArgSet(launched[i])) = Len(launched[i].args)

\* C9 witness: the configure process was launched for the android target.
C9_Witness ==
  \E i \in 1..Len(launched) :
    /\ IsConfigure(launched[i])
    /\ target[1].os = "android"
    /\ target[1].arch = "arm"

\* C10: when fetch_glslang has returned, it returned Ok iff every one of its
\* six external processes ran and exited with status zero.
C10_FetchFailsOnAnyNonZeroExit ==
  bpc = "fetched" =>
    ( fetch_result.kind = "Ok" <=>
        /\ Len(fetch_steps) = Len(FetchCommands) + 1
        /\ \A i \in 1..Len(fetch_steps) : fetch_steps[i].status = "zero" )

\* The positions inside fetch_glslang and build_glslang, between the change of
\* directory on entry and the exit.
InsideFetchOrBuild ==
  bpc \in {"fetch_git", "fetch_script", "build_drive", "build_subst", "build_dirs",
           "build_configure", "build_build"}

\* C11: once fetch_glslang or build_glslang has been entered (the entry
\* directory is saved) and is no longer running, whether it returned Ok,
\* returned Err or panicked, the current working directory is the directory it
\* was entered in.
C11_CwdRestoredOnEveryExit ==
  (saved_cwd # None /\ ~InsideFetchOrBuild) => cwd = saved_cwd[1]

\* build_glslang was left by a panic after it had entered the build directory
\* (the configure or build process could not be started), and the directory is
\* the one of entry.
C11_Witness ==
  /\ bpc = "panicked"
  /\ saved_cwd # None
  /\ Len(launched) > 0
  /\ launched[Len(launched)].name \in {"cmake", "make"}
  /\ launched[Len(launched)].status = "spawn_error"
  /\ cwd = saved_cwd[1]

\* The build process of src/build.rs:280-311 (`cmake --build .` or `make`).
IsBuildProcess(p) ==
  \/ p.name = "make"
  \/ p.name = "cmake" /\ p.args[1] = "--build"

\* `written` holds what main has written of the output of the launched
\* process number i: its captured stdout, then its captured stderr.
OutputWritten(i) ==
  \E k \in 1..(Len(written) - 1) :
    /\ written[k] = [of |-> i, stream |-> "stdout"]
    /\ written[k + 1] = [of |-> i, stream |-> "stderr"]

\* The build script has terminated: main has returned or panicked.
Terminated == bpc \in {"done", "panicked"}

\* C12: a build process is launched only after a configure process that
\* exited zero; a configure process that exited non-zero is the last process
\* launched and build_glslang's result is ConfigureFailed carrying its output;
\* a build process that exited non-zero makes the result BuildFailed carrying
\* its output; and when the build script has terminated after either failure,
\* main has written that output's stdout and stderr.
C12_ConfigureFailureShortCircuits ==
  /\ \A i \in 1..Len(launched) :
       /\ IsBuildProcess(launched[i]) =>
            \E j \in 1..(i - 1) :
              IsConfigure(launched[j]) /\ launched[j].status = "zero"
       /\ (IsConfigure(launched[i]) /\ launched[i].status = "nonzero") =>
            /\ i = Len(launched)
            /\ build_result = BuilderError("ConfigureFailed", i)
       /\ (IsBuildProcess(launched[i]) /\ launched[i].status = "nonzero") =>
            build_result = BuilderError("BuildFailed", i)
  /\ ( /\ Terminated
       /\ build_result.kind = "Err"
       /\ build_result.error \in {"ConfigureFailed", "BuildFailed"} )
     => OutputWritten(build_result.output)

\* The configure process exited non-zero, no build process was launched, and
\* the script has terminated with the configure output written.
C12_Witness ==
  /\ bpc = "panicked"
  /\ build_result.kind = "Err"
  /\ build_result.error = "ConfigureFailed"
  /\ launched[build_result.output].status = "nonzero"
  /\ \A i \in 1..Len(launched) : ~IsBuildProcess(launched[i])
  /\ OutputWritten(build_result.output)

\* The directives main prints before the manifest is read (src/build.rs:423-426).
RerunDirectives ==
  {"rerun-if-changed=src/wrapper.h", "rerun-if-changed=prebuilt/version.txt"}

\* A link directive (src/build.rs:473-481) has been printed.
LinkEmitted == \E i \in 1..Len(emitted) : emitted[i] \notin RerunDirectives

\* main has reached the link directives or the generation of the bindings.
ReachedLinkOrBindings ==
  \/ bpc \in {"link", "bindgen", "done"}
  \/ LinkEmitted
  \/ bindings # "none"

\* The install directory was obtained: by a successful verification, or by a
\* successful fetch followed by a successful build.
InstallDirObtained ==
  IF cfg.feature
  THEN /\ fetch_result.kind = "Ok"
       /\ build_result.kind = "Ok"
       /\ install_dir_path = Some(build_result.value)
  ELSE /\ verify_result.kind = "Ok"
       /\ install_dir_path = Some(verify_result.value)

\* No step after the acquisition of the install directory has run.
NothingAfterAcquisition ==
  /\ ~ReachedLinkOrBindings
  /\ install_dir_path = None

\* C13: link directives are printed and the bindings generated only after
\* the manifest gave the glslang entry and the install directory was
\* obtained (verification Ok, or fetch Ok and then build Ok); the build runs
\* only after fetch returned Ok; and once the manifest, the verification, the
\* fetch or the build has failed, no later step has run and the script is at
\* that failure or terminated by panic.
C13_PipelineSequential ==
  /\ ReachedLinkOrBindings => (repo # None /\ InstallDirObtained)
  /\ (launched # <<>> \/ build_result # NoResult \/ bitfield # None) =>
       (repo # None /\ fetch_result.kind = "Ok")
  /\ (stamp # StampUnread \/ fetch_steps # <<>> \/ fetch_result # NoResult) => repo # None
  /\ (repo = None /\ bpc # "start" /\ bpc # "manifest") =>
       (bpc = "panicked" /\ NothingAfterAcquisition)
  /\ verify_result.kind \in {"Err", "Panic"} =>
       (bpc \in {"verified", "panicked"} /\ NothingAfterAcquisition
          /\ fetch_result = NoResult /\ launched = <<>>)
  /\ fetch_result.kind = "Err" =>
       (bpc \in {"fetched", "panicked"} /\ NothingAfterAcquisition
          /\ launched = <<>> /\ build_result = NoResult)
  /\ build_result.kind = "Err" =>
       (bpc \in {"built", "panicked"} /\ NothingAfterAcquisition)

\* The script ran to its end from source: fetch and build succeeded, the
\* link directives are printed and the bindings written.
C13_Witness ==
  /\ bpc = "done"
  /\ cfg.feature
  /\ build_result.kind = "Ok"
  /\ LinkEmitted
  /\ bindings = "written"

-----------------------------------------------------------------------------
(* Properties of compile: options and source embedding *)

\* The options record C14 describes for a set of flags.
ClaimedSpvOptions(flags) ==
  [ generate_debug_info |-> (GenerateDebugInfo \in flags \/ AddOpSource \in flags),
    strip_debug_info |-> FALSE,
    disable_optimizer |-> TRUE,
    optimize_size |-> FALSE,
    disassemble |-> FALSE,
    validate |-> TRUE,
    emit_nonsemantic_shader_debug_info |-> FALSE,
    emit_nonsemantic_shader_debug_source |-> FALSE ]

\* C14: once glslang_program_SPIRV_generate_with_options has been called,
\* the options record it was given depends on the flags only:
\* generate_debug_info iff GenerateDebugInfo or AddOpSource is set, validate
\* and disable_optimizer true, every other option false.
C14_SpvOptionsFromFlags ==
  Called("glslang_program_SPIRV_generate_with_options") =>
    program.options = Some(ClaimedSpvOptions(input.option_flags))

\* Generation was requested with AddOpSource alone, and debug information is
\* on.
C14_Witness ==
  /\ Called("glslang_program_SPIRV_generate_with_options")
  /\ input.option_flags = {AddOpSource}
  /\ program.options[1].generate_debug_info
  /\ program.options[1].validate

\* glslang_program_link was called and returned non-zero.
LinkSucceeded == Called("glslang_program_link") /\ failed_step = None

SourceTextAttached == Called("glslang_program_add_source_text")

SourceFileSet == Called("glslang_program_set_source_file")

\* compile is past the block of src/lib.rs:98-106 or has ended.
PastSourceBlock == pc \in {"generate", "readback", "returned", "panicked"}

\* C15 as stated: once compile is past the source block or has ended, the
\* source text is attached iff AddOpSource is set and link succeeded, and the
\* source file name is set iff AddOpSource is set, a name was supplied and link
\* succeeded.
C15_Original ==
  PastSourceBlock =>
    /\ SourceTextAttached <=>
         (AddOpSource \in input.option_flags /\ LinkSucceeded)
    /\ SourceFileSet <=>
         ( /\ AddOpSource \in input.option_flags
           /\ input.source_file_name # None
           /\ LinkSucceeded )

\* C15: neither call is ever made unless AddOpSource is set and link
\* succeeded, the file name is set only after the text was attached and a name
\* was supplied, and what is set is the attached text of the input code and
\* the supplied name; and when compile is past the source block without a
\* panic, the text is attached iff AddOpSource is set and link succeeded, and
\* the file name is set iff moreover a name was supplied.
C15_SourceEmbeddingGated ==
  /\ SourceTextAttached =>
       /\ AddOpSource \in input.option_flags /\ LinkSucceeded
       /\ program.source_text = Some(to_str(input.code))
  /\ SourceFileSet =>
       /\ SourceTextAttached /\ input.source_file_name # None
       /\ program.source_file = input.source_file_name
  /\ (PastSourceBlock /\ pc # "panicked") =>
       /\ SourceTextAttached <=>
            (AddOpSource \in input.option_flags /\ LinkSucceeded)
       /\ SourceFileSet <=>
            ( /\ AddOpSource \in input.option_flags
              /\ input.source_file_name # None
              /\ LinkSucceeded )

\* compile returned Ok with AddOpSource set and a name supplied: both calls
\* were made.
C15_Witness ==
  /\ pc = "returned" /\ result.kind = "Ok"
  /\ AddOpSource \in input.option_flags
  /\ input.source_file_name # None
  /\ SourceTextAttached /\ SourceFileSet

-----------------------------------------------------------------------------
(* Properties of the build script: drive mappings *)

\* build_glslang is not running: it was not entered yet, or it returned or
\* panicked.
BuildNotRunning ==
  bpc \notin {"build_drive", "build_subst", "build_dirs", "build_configure", "build_build"}

SubstLaunched == \E i \in 1..Len(launched) : launched[i].name = "subst"

NoAvailableDriveLetter == BuilderError("NoAvailableDriveLetter", NoOutput)

\* The install directory under the working directory as main named it, not
\* through a drive letter.
UnmappedInstallDir ==
  Join(Join(glslang_clone_dst_dir_path, build_dir(target[1].os, target[1].arch)),
       install_dir)

\* C16: when every letter is in use build_glslang fails with
\* NoAvailableDriveLetter, and whenever it fails so no `subst` was launched
\* and nothing is mapped; whenever build_glslang is not running (it returned
\* Ok, ConfigureFailed or BuildFailed, or panicked) no drive letter is mapped
\* by it; and the directory it returns on success is the one under OUT_DIR,
\* not under the drive letter.
C16_DriveMappingsBalanced ==
  /\ (bitfield # None /\ AllDrivesInUse(bitfield[1])) =>
       build_result = NoAvailableDriveLetter
  /\ build_result = NoAvailableDriveLetter => (~SubstLaunched /\ mapped = {})
  /\ BuildNotRunning => mapped = {}
  /\ build_result.kind = "Ok" =>
       (build_result.value = UnmappedInstallDir /\ build_result.value.root = "OUT_DIR")

\* On the host with the workaround the working root was mapped (`subst`
\* exited zero), the build failed, and build_glslang has returned BuildFailed
\* with nothing mapped.
C16_Witness ==
  /\ cfg.host = "windows"
  /\ bpc = "built"
  /\ SubstLaunched
  /\ launched[1].status = "zero"
  /\ build_result.kind = "Err"
  /\ build_result.error = "BuildFailed"
  /\ mapped = {}

====
